---- MODULE Spec2Model ----
(***************************************************************************)
(* A model of port_scanner.py (Port Scanner v1.2).                         *)
(*                                                                         *)
(*   Spec         main()'s sequential loop over the expanded targets:      *)
(*                scan_one_target, PortScanner.scan_range with its         *)
(*                ThreadPoolExecutor, the sequential list / single /       *)
(*                common-port scans, KeyboardInterrupt, and the report     *)
(*                handed to write_scan_result.                             *)
(*   SpecResolve  PortScanner.resolve_target on a resolver answer.         *)
(*   SpecExpand   main()'s CIDR expansion loop with its confirmation gate. *)
(*                                                                         *)
(* Python values: an Optional[str] is a sequence of length 0 (None) or 1;  *)
(* a str that is inspected character by character is a sequence of         *)
(* one-character strings; the Optional[int] returned by scan_port is the   *)
(* port or NoPort (None), both None and 0 being falsy in `if result:`.     *)
(***************************************************************************)
EXTENDS Integers, Sequences, FiniteSets, TLC

\* ---------------------------------------------------------------- bounds
MaxPort == 2          \* ports of a range / list / single spec are 1..MaxPort
MaxListLen == 2       \* longest "-p a,b,..." list
MaxThreads == 2       \* largest --threads value
MaxTargets == 2       \* most entries of expanded_targets
CommonLen == 2        \* how many leading entries of COMMON_PORTS are scanned
MaxInfos == 4         \* most entries of a getaddrinfo answer
MaxEntries == 2       \* most entries of main()'s targets list
MaxHostBits == 3      \* widest network: prefix length = address bits - MaxHostBits
MaxMaxHosts == 4      \* largest --max-hosts value

\* ------------------------------------------------------------- constants
COMMON_PORTS_ALL ==
    <<20, 21, 22, 23, 25, 53, 80, 110, 111, 135, 139, 143, 443, 445, 993,
      995, 1723, 3306, 3389, 5900, 8080, 8443>>

COMMON_PORTS == SubSeq(COMMON_PORTS_ALL, 1, CommonLen)

DefaultThreads == 100

NoPort == 0

None == <<>>

Some(x) == <<x>>

Ports == 1..MaxPort

\* ------------------------------------------------------- pure operations
RECURSIVE Insert(_, _)
Insert(x, s) ==
    IF s = <<>> THEN <<x>>
    ELSE IF x < Head(s) THEN <<x>> \o s
    ELSE <<Head(s)>> \o Insert(x, Tail(s))

\* A report built from scanner.open_ports as it stands.
Unsorted(s) == s

\* Python's sorted() on a list of ports.
RECURSIVE sorted(_)
sorted(s) == IF s = <<>> THEN <<>> ELSE Insert(Head(s), sorted(Tail(s)))

RangeSeq(a, b) == [j \in 1..(IF b >= a THEN b - a + 1 ELSE 0) |-> a + j - 1]

SeqSet(s) == {s[j] : j \in 1..Len(s)}

DictGet(d, key) == IF key \in DOMAIN d THEN d[key] ELSE None

DictSet(d, key, v) == [x \in (DOMAIN d) \cup {key} |-> IF x = key THEN v ELSE d[x]]

EmptyDict == [x \in {} |-> None]

\* PortScanner.get_service_name: socket.getservbyport(port, 'tcp'), "unknown"
\* when the services database has no entry (the lookup raises).
ServicesDb ==
    [p \in {1, 20, 21, 22, 23, 25, 80, 443} |->
        CASE p = 1 -> "tcpmux" [] p = 20 -> "ftp-data" [] p = 21 -> "ftp"
          [] p = 22 -> "ssh" [] p = 23 -> "telnet" [] p = 25 -> "smtp"
          [] p = 80 -> "http" [] OTHER -> "https"]

get_service_name(port) ==
    IF port \in DOMAIN ServicesDb THEN ServicesDb[port] ELSE "unknown"

\* str.lower() on one character.
LowerChar(c) ==
    CASE c = "A" -> "a" [] c = "B" -> "b" [] c = "C" -> "c" [] c = "D" -> "d"
      [] c = "E" -> "e" [] c = "F" -> "f" [] c = "G" -> "g" [] c = "H" -> "h"
      [] c = "I" -> "i" [] c = "J" -> "j" [] c = "K" -> "k" [] c = "L" -> "l"
      [] c = "M" -> "m" [] c = "N" -> "n" [] c = "O" -> "o" [] c = "P" -> "p"
      [] c = "Q" -> "q" [] c = "R" -> "r" [] c = "S" -> "s" [] c = "T" -> "t"
      [] c = "U" -> "u" [] c = "V" -> "v" [] c = "W" -> "w" [] c = "X" -> "x"
      [] c = "Y" -> "y" [] c = "Z" -> "z" [] OTHER -> c

lower(s) == [j \in 1..Len(s) |-> LowerChar(s[j])]

\* str.strip() and its two halves.
Whitespace == {" ", "\t", "\r", "\n"}

RECURSIVE lstrip(_)
lstrip(t) ==
    IF t # <<>> /\ Head(t) \in Whitespace THEN lstrip(Tail(t)) ELSE t

RECURSIVE rstrip(_)
rstrip(t) ==
    IF t # <<>> /\ t[Len(t)] \in Whitespace
    THEN rstrip(SubSeq(t, 1, Len(t) - 1)) ELSE t

strip(t) == rstrip(lstrip(t))

\* Position of the first occurrence of character c in t, 0 if there is none.
RECURSIVE Find(_, _, _)
Find(t, c, j) ==
    IF j > Len(t) THEN 0 ELSE IF t[j] = c THEN j ELSE Find(t, c, j + 1)

\* str.split(c): the pieces between the occurrences of c.
RECURSIVE split(_, _)
split(t, c) ==
    LET j == Find(t, c, 1)
    IN  IF j = 0 THEN <<t>>
        ELSE <<SubSeq(t, 1, j - 1)>> \o split(SubSeq(t, j + 1, Len(t)), c)

DigitValue(c) ==
    CASE c = "0" -> 0 [] c = "1" -> 1 [] c = "2" -> 2 [] c = "3" -> 3
      [] c = "4" -> 4 [] c = "5" -> 5 [] c = "6" -> 6 [] c = "7" -> 7
      [] c = "8" -> 8 [] c = "9" -> 9 [] OTHER -> -1

RECURSIVE DigitsValue(_)
DigitsValue(t) ==
    IF t = <<>> THEN 0
    ELSE 10 * DigitsValue(SubSeq(t, 1, Len(t) - 1)) + DigitValue(t[Len(t)])

AllDigits(t) == t # <<>> /\ \A j \in 1..Len(t) : DigitValue(t[j]) >= 0

\* int(t): blanks around the number and one sign are accepted, anything else
\* raises ValueError (ok = FALSE).
int(t) ==
    LET u == strip(t)
        signed == u # <<>> /\ u[1] \in {"+", "-"}
        digits == IF signed THEN Tail(u) ELSE u
    IN  IF AllDigits(digits)
        THEN [ok |-> TRUE,
              val |-> IF signed /\ u[1] = "-" THEN 0 - DigitsValue(digits)
                      ELSE DigitsValue(digits)]
        ELSE [ok |-> FALSE, val |-> 0]

ParseError == [ok |-> FALSE, mode |-> "error", data |-> <<>>]

Parsed(mode, data) == [ok |-> TRUE, mode |-> mode, data |-> data]

\* parse_ports_spec(ports_spec); ports_spec is Optional. data is <<start, end>>
\* for a range, the ports for a list, <<port>> for a single port, <<>> for the
\* common ports; ok = FALSE stands for the ValueError of int() or of the
\* unpacking.
parse_ports_spec(ports_spec) ==
    IF ports_spec = None \/ ports_spec[1] = <<>> THEN Parsed("common", <<>>)
    ELSE LET t == strip(ports_spec[1])
             dash == Find(t, "-", 1)
         IN  IF dash # 0
             THEN LET start == int(SubSeq(t, 1, dash - 1))
                      end == int(SubSeq(t, dash + 1, Len(t)))
                  IN  IF start.ok /\ end.ok
                      THEN Parsed("range", <<start.val, end.val>>)
                      ELSE ParseError
             ELSE IF Find(t, ",", 1) # 0
             THEN LET parts == SelectSeq(split(t, ","), LAMBDA q : strip(q) # <<>>)
                      ints == [j \in 1..Len(parts) |-> int(strip(parts[j]))]
                  IN  IF \A j \in 1..Len(ints) : ints[j].ok
                      THEN Parsed("list", [j \in 1..Len(ints) |-> ints[j].val])
                      ELSE ParseError
             ELSE LET port == int(t)
                  IN  IF port.ok THEN Parsed("single", <<port.val>>) ELSE ParseError

\* A match that looks for the keyword at the start of the banner only.
StartsWith(b, key) == Len(b) >= Len(key) /\ SubSeq(b, 1, Len(key)) = key

\* Python's `key in b` on strings.
Contains(b, key) ==
    \E j \in 0..(Len(b) - Len(key)) : SubSeq(b, j + 1, j + Len(key)) = key

checks ==
    <<<<<<"n", "g", "i", "n", "x">>, "nginx">>,
      <<<<"a", "p", "a", "c", "h", "e">>, "apache">>,
      <<<<"i", "i", "s">>, "iis">>,
      <<<<"t", "o", "m", "c", "a", "t">>, "tomcat">>,
      <<<<"s", "s", "h">>, "ssh">>,
      <<<<"s", "m", "t", "p">>, "smtp">>,
      <<<<"e", "s", "m", "t", "p">>, "smtp">>,
      <<<<"f", "t", "p">>, "ftp">>,
      <<<<"m", "y", "s", "q", "l">>, "mysql">>,
      <<<<"m", "a", "r", "i", "a", "d", "b">>, "mysql">>,
      <<<<"p", "o", "s", "t", "g", "r", "e", "s">>, "postgresql">>,
      <<<<"h", "t", "t", "p">>, "http">>,
      <<<<"h", "t", "t", "p", "/">>, "http">>,
      <<<<"s", "s", "l">>, "ssl">>,
      <<<<"o", "p", "e", "n", "s", "s", "l">>, "ssl">>,
      <<<<"s", "s", "h", "-">>, "ssh">>,
      <<<<"p", "o", "s", "t", "f", "i", "x">>, "smtp">>,
      <<<<"e", "x", "i", "m">>, "smtp">>,
      <<<<"d", "o", "v", "e", "c", "o", "t">>, "imap/pop3">>,
      <<<<"i", "m", "a", "p">>, "imap">>,
      <<<<"p", "o", "p", "3">>, "pop3">>,
      <<<<"r", "d", "p">>, "rdp">>>>

\* A classifier that returns the last matching rule instead of the first.
RECURSIVE LastMatch(_, _)
LastMatch(b, j) ==
    IF j > Len(checks) THEN 0
    ELSE LET rest == LastMatch(b, j + 1)
         IN  IF rest # 0 THEN rest
             ELSE IF Contains(b, checks[j][1]) THEN j ELSE 0

\* Index of the first rule of checks whose keyword occurs in b, 0 if none.
RECURSIVE FirstMatch(_, _)
FirstMatch(b, j) ==
    IF j > Len(checks) THEN 0
    ELSE IF Contains(b, checks[j][1]) THEN j
    ELSE FirstMatch(b, j + 1)

\* PortScanner.detect_service_from_banner(port, banner); banner is Optional.
detect_service_from_banner(port, banner) ==
    LET svc == get_service_name(port)
        hasBase == svc # "" /\ svc # "unknown"
        baseOrUnknown == IF hasBase THEN svc ELSE "unknown"
    IN  IF banner = None \/ banner[1] = <<>> THEN baseOrUnknown
        ELSE LET m == FirstMatch(lower(banner[1]), 1)
             IN  IF m = 0 THEN baseOrUnknown
                 ELSE IF hasBase THEN svc \o " (" \o checks[m][2] \o ")"
                 ELSE checks[m][2]

\* A scan_port that tests `result is not None` instead of `result == 0`.
ScanPortAnyResult(family, port, outcome) ==
    IF family = "None" THEN NoPort
    ELSE IF outcome \in {"OPEN", "CLOSED"} THEN port
    ELSE NoPort

\* PortScanner.scan_port(port) for a probe whose connection attempt ends with
\* `outcome`: "OPEN" (connect_ex returned 0), "CLOSED" (connect_ex returned an
\* errno: refused, timed out) or "ERROR" (socket(), settimeout() or connect_ex
\* raised).  Returns the port, or NoPort for None.
scan_port(family, port, outcome) ==
    IF family = "None" THEN NoPort
    ELSE IF outcome = "OPEN" THEN port
    ELSE NoPort

Outcomes == {"OPEN", "CLOSED", "ERROR"}

\* PortScanner.resolve_target.  A target is a literal address or a name with
\* the resolver's answer: a sequence of address families (getaddrinfo's
\* infos, in the resolver's order), "gaierror", or "error" (another exception).
UsableFamilies == {"AF_INET", "AF_INET6"}

\* The loop over infos: the first entry of a usable family, 0 if none.
RECURSIVE FirstUsable(_, _)
FirstUsable(infos, j) ==
    IF j > Len(infos) THEN 0
    ELSE IF infos[j] \in UsableFamilies THEN j
    ELSE FirstUsable(infos, j + 1)

resolve_target(t) ==
    CASE t.kind = "literal4" -> [ok |-> TRUE, family |-> "AF_INET", chosen |-> 0]
      [] t.kind = "literal6" -> [ok |-> TRUE, family |-> "AF_INET6", chosen |-> 0]
      [] OTHER ->
           IF t.raises # "no"
           THEN [ok |-> FALSE, family |-> "None", chosen |-> 0]
           ELSE LET c == FirstUsable(t.infos, 1)
                IN  IF c = 0 THEN [ok |-> FALSE, family |-> "None", chosen |-> 0]
                    ELSE [ok |-> TRUE, family |-> t.infos[c], chosen |-> c]

Literal4 == [kind |-> "literal4", raises |-> "no", infos |-> <<>>]

Literal6 == [kind |-> "literal6", raises |-> "no", infos |-> <<>>]

Hostname(raises, infos) == [kind |-> "name", raises |-> raises, infos |-> infos]

\* str(k) on a port number, as used for the keys of the report's maps.
str(n) == <<"str", n>>

\* ------------------------------------------------------------------ state
VARIABLES
    ports_mode,         \* parse_ports_spec's mode: "common", "range", "list", "single"
    ports_data,         \* its data, as a sequence: <<start, end>>, the list, <<port>>, <<>>
    threads,            \* --threads
    do_banner,          \* --banner
    do_service_detect,  \* --service-detect
    n_targets,          \* len(expanded_targets)
    host,               \* position in expanded_targets of main()'s loop (1-based)
    pc,                 \* where the main thread is
    family,             \* scanner.family ("None" before resolution)
    fut,                \* per planned probe: "new", "queued", "running", an outcome, "aborted"
    seen,               \* the futures as_completed has already yielded
    k,                  \* next position to submit (range) or to probe (sequential)
    cur,                \* `result` of the loop body in progress
    open_ports,         \* scanner.open_ports
    banners,            \* scanner.banners
    detected_services,  \* scanner.detected_services
    result_obj,         \* the report passed to write_scan_result, None before
    written,            \* targets whose report write_scan_result has received, in order
    \* history, for stating properties
    intr,               \* how this target's scan left the try block: "no", "kbd", "err"
    snap,               \* open_ports, the started and the completed probes at the interrupt
    first_int,          \* the first target that was interrupted, 0 if none so far
    resolved,           \* resolve_target's verdict per target processed so far
    stale,              \* workers of an earlier target's executor are still probing
    \* SpecResolve
    r_target, r_result,
    \* SpecExpand
    x_targets, x_max_hosts, x_force, x_i, x_pc, x_expanded, x_confirms, x_answer,
    x_ports_mode,       \* ports_mode of main(): "unset", a mode, "error" after ValueError
    \* SpecDetect
    d_port, d_banner, d_result,
    \* SpecProbe: one unit of work, scan_port then the scheduler's log line
    \* then grab_banner
    u_family,           \* scanner.family
    u_port,             \* the probed port
    u_mode,             \* which loop runs the unit of work
    u_verbose,          \* args.verbose
    u_do_banner,        \* args.banner
    u_pc,               \* the statement about to run
    u_sock,             \* scan_port's socket: "none", "open", "closed"
    u_fault,            \* the statement of scan_port that raised, "none" if none
    u_conn,             \* what connect_ex returned, "none" before it has
    u_result,           \* scan_port's return value, None while it runs
    u_log,              \* the outcome lines printed for this probe
    g_sock,             \* grab_banner's socket: "none", "open", "closed"
    g_tls,              \* grab_banner's TLS socket: "none", "open", "closed"
    g_banner,           \* grab_banner's local `banner` (bytes)
    g_failed,           \* the statements of grab_banner that raised
    g_ret,              \* grab_banner's return value, None while it runs
    \* SpecParse
    p_arg,              \* args.ports
    p_result,           \* what parse_ports_spec returned, None before
    p_range             \* the (start_port, end_port) scan_range was called with, None if not

scanVars ==
    <<ports_mode, ports_data, threads, do_banner, do_service_detect, n_targets,
      host, pc, family, fut, seen, k, cur, open_ports, banners,
      detected_services, result_obj, written, intr, snap, first_int,
      resolved, stale>>

resolveVars == <<r_target, r_result>>

expandVars ==
    <<x_targets, x_max_hosts, x_force, x_i, x_pc, x_expanded, x_confirms, x_answer,
      x_ports_mode>>

detectVars == <<d_port, d_banner, d_result>>

probeVars ==
    <<u_family, u_port, u_mode, u_verbose, u_do_banner, u_pc, u_sock, u_fault,
      u_conn, u_result, u_log, g_sock, g_tls, g_banner, g_failed, g_ret>>

parseVars == <<p_arg, p_result, p_range>>

vars == <<scanVars, resolveVars, expandVars, detectVars, probeVars, parseVars>>

\* ------------------------------------------------- the scan run (Spec)
\* The ports a target's scan probes, in submission / iteration order.
Plan ==
    CASE ports_mode = "range" -> RangeSeq(ports_data[1], ports_data[2])
      [] ports_mode = "common" -> COMMON_PORTS
      [] OTHER -> ports_data

PortSpecs ==
    {[mode |-> "common", data |-> <<>>]}
    \cup {[mode |-> "range", data |-> <<a, b>>] : a \in Ports, b \in Ports}
    \cup {[mode |-> "list", data |-> l] :
            l \in UNION {[1..n -> Ports] : n \in 0..MaxListLen}}
    \cup {[mode |-> "single", data |-> <<p>>] : p \in Ports}

\* What resolve_target may be given in a scan run.
RunTargets ==
    {Literal4, Hostname("gaierror", <<>>), Hostname("no", <<"AF_UNIX">>),
     Hostname("no", <<"AF_INET">>)}

\* What grab_banner may return: None, "" (whitespace only), a greeting.
GrabResults ==
    {None, Some(<<>>), Some(<<"S", "S", "H", "-", "2", ".", "0">>)}

IdleScan ==
    /\ ports_mode = "common" /\ ports_data = <<>> /\ threads = DefaultThreads
    /\ do_banner = FALSE /\ do_service_detect = FALSE /\ n_targets = 0
    /\ host = 1 /\ pc = "exit" /\ family = "None" /\ fut = <<>> /\ seen = {}
    /\ k = 1 /\ cur = NoPort /\ open_ports = <<>> /\ banners = EmptyDict
    /\ detected_services = EmptyDict /\ result_obj = None /\ written = <<>>
    /\ intr = "no" /\ snap = None /\ first_int = 0 /\ resolved = <<>>
    /\ stale = FALSE

IdleResolve == r_target = Literal4 /\ r_result = None

IdleExpand ==
    /\ x_targets = <<>> /\ x_max_hosts = 0 /\ x_force = FALSE /\ x_i = 1
    /\ x_pc = "exit" /\ x_expanded = <<>> /\ x_confirms = <<>> /\ x_answer = <<>>
    /\ x_ports_mode = "unset"

IdleParse == p_arg = None /\ p_result = None /\ p_range = None

IdleDetect == d_port = 0 /\ d_banner = None /\ d_result = None

IdleProbe ==
    /\ u_family = "None" /\ u_port = 0 /\ u_mode = "range" /\ u_verbose = FALSE
    /\ u_do_banner = FALSE /\ u_pc = "done" /\ u_sock = "none" /\ u_fault = "none"
    /\ u_conn = "none"
    /\ u_result = None /\ u_log = <<>> /\ g_sock = "none" /\ g_tls = "none"
    /\ g_banner = <<>> /\ g_failed = {} /\ g_ret = None

Init ==
    /\ \E ps \in PortSpecs :
         /\ ports_mode = ps.mode
         /\ ports_data = ps.data
    /\ threads \in 0..MaxThreads
    /\ do_banner \in BOOLEAN
    /\ do_service_detect \in BOOLEAN
    /\ n_targets \in 1..MaxTargets
    /\ host = 1
    /\ pc = "resolve"
    /\ family = "None"
    /\ fut = <<>>
    /\ seen = {}
    /\ k = 1
    /\ cur = NoPort
    /\ open_ports = <<>>
    /\ banners = EmptyDict
    /\ detected_services = EmptyDict
    /\ result_obj = None
    /\ written = <<>>
    /\ intr = "no"
    /\ snap = None
    /\ first_int = 0
    /\ resolved = <<>>
    /\ stale = FALSE
    /\ IdleResolve
    /\ IdleExpand
    /\ IdleDetect
    /\ IdleProbe
    /\ IdleParse

config == <<ports_mode, ports_data, threads, do_banner, do_service_detect, n_targets>>

others == <<resolveVars, expandVars, detectVars, probeVars, parseVars>>

NextHostPc == IF host + 1 > n_targets THEN "exit" ELSE "resolve"

\* Where the main thread continues after one loop body.
BackPc == IF ports_mode = "range" THEN "loop" ELSE "seq"

AfterAppendPc ==
    IF do_banner THEN "banner"
    ELSE IF do_service_detect THEN "service"
    ELSE BackPc

AfterBannerPc == IF do_service_detect THEN "service" ELSE BackPc

Running == {j \in DOMAIN fut : fut[j] = "running"}

Queued == {j \in DOMAIN fut : fut[j] = "queued"}

Completed == {j \in DOMAIN fut : fut[j] \in Outcomes}

Started == Running \cup Completed \cup {j \in DOMAIN fut : fut[j] = "aborted"}

\* A loop body that goes on to the banner although nothing was appended.
RecordWithoutAppend(result) ==
    IF result # NoPort
    THEN /\ open_ports' = open_ports
         /\ cur' = IF AfterAppendPc = BackPc THEN NoPort ELSE result
         /\ pc' = AfterAppendPc
    ELSE /\ UNCHANGED <<open_ports, cur>>
         /\ pc' = BackPc

\* `if result:` ... self.open_ports.append(result), common to the four scans.
\* (`result` is dead once a loop body ends; cur is then cleared.)
RecordResult(result) ==
    IF result # NoPort
    THEN /\ open_ports' = Append(open_ports, result)
         /\ cur' = IF AfterAppendPc = BackPc THEN NoPort ELSE result
         /\ pc' = AfterAppendPc
    ELSE /\ UNCHANGED <<open_ports, cur>>
         /\ pc' = BackPc

\* scan_one_target: a fresh PortScanner and its resolve_target() call.
ScanOneTarget ==
    /\ pc = "resolve"
    /\ \E t \in RunTargets :
         LET r == resolve_target(t) IN
         /\ family' = r.family
         /\ resolved' = Append(resolved, r.ok)
    /\ pc' = "resolved"
    /\ fut' = [j \in 1..Len(Plan) |-> "new"]
    /\ seen' = {}
    /\ k' = 1
    /\ cur' = NoPort
    /\ open_ports' = <<>>
    /\ banners' = EmptyDict
    /\ detected_services' = EmptyDict
    /\ result_obj' = None
    /\ intr' = "no"
    /\ snap' = None
    /\ UNCHANGED <<config, host, written, first_int, stale, others>>

\* A scan_one_target that ignores resolve_target's verdict.
NeverSkip(ok) == FALSE

\* `if not scanner.resolve_target(): return`
SkipUnresolved(ok) == ~ok

\* The return on a failed resolution, or the dispatch on ports_mode.
Dispatch ==
    /\ pc = "resolved"
    /\ IF SkipUnresolved(resolved[host])
       THEN /\ pc' = NextHostPc
            /\ host' = host + 1
       ELSE /\ pc' = IF ports_mode = "range" THEN "executor" ELSE "seq"
            /\ host' = host
    /\ UNCHANGED <<config, family, fut, seen, k, cur, open_ports, banners,
                   detected_services, result_obj, written, intr, snap,
                   first_int, resolved, stale, others>>

\* scan_range: `with ThreadPoolExecutor(max_workers=self.threads)`, which
\* raises ValueError for max_workers <= 0 (caught by scan_one_target).
CreateExecutor ==
    /\ pc = "executor"
    /\ IF threads <= 0
       THEN pc' = "finalize" /\ intr' = "err"
       ELSE pc' = (IF Len(Plan) = 0 THEN "loop" ELSE "submit") /\ intr' = intr
    /\ UNCHANGED <<config, host, family, fut, seen, k, cur, open_ports, banners,
                   detected_services, result_obj, written, snap, first_int, resolved, stale, others>>

\* scan_range: executor.submit(self.scan_port, port) for the next port.
Submit ==
    /\ pc = "submit"
    /\ fut' = [fut EXCEPT ![k] = "queued"]
    /\ k' = k + 1
    /\ pc' = IF k = Len(Plan) THEN "loop" ELSE "submit"
    /\ UNCHANGED <<config, host, family, seen, cur, open_ports, banners,
                   detected_services, result_obj, written, intr, snap, first_int, resolved, stale, others>>

ExecutorAlive ==
    ports_mode = "range" /\ pc \in {"submit", "loop", "banner", "service", "shutdown"}

\* A pool that starts a thread for every submitted work item.
UnboundedPool == TRUE

\* A pool whose workers never pick up a work item.
IdlePool == FALSE

\* ThreadPoolExecutor(max_workers=self.threads): a worker is free, or one
\* more may be started.
HasFreeWorker == Cardinality(Running) < threads

\* A pool worker takes the oldest queued work item and starts scan_port.
WorkerStart ==
    /\ ExecutorAlive
    /\ Queued # {}
    /\ HasFreeWorker
    /\ LET j == CHOOSE q \in Queued : \A q2 \in Queued : q <= q2 IN
         /\ fut' = [fut EXCEPT ![j] = "running"]
    /\ UNCHANGED <<config, host, pc, family, seen, k, cur, open_ports, banners,
                   detected_services, result_obj, written, intr, snap,
                   first_int, resolved, stale, others>>

\* A scan_port that appends the port it found open itself.
WorkerAppends(port, o) ==
    open_ports' = IF o = "OPEN" THEN Append(open_ports, port) ELSE open_ports

\* What scan_port does to the scanner in a worker: it reads addr, family and
\* timeout and hands its result back through the future.
WorkerReturns(port, o) == UNCHANGED open_ports

\* A worker's scan_port returns.
WorkerFinish ==
    /\ ExecutorAlive
    /\ \E j \in Running, o \in Outcomes :
         /\ fut' = [fut EXCEPT ![j] = o]
         /\ WorkerReturns(Plan[j], o)
    /\ UNCHANGED <<config, host, pc, family, seen, k, cur, banners,
                   detected_services, result_obj, written, intr, snap, first_int, resolved, stale, others>>

\* scan_range: as_completed yields a finished future; the body up to append.
AsCompleted ==
    /\ pc = "loop"
    /\ \E j \in Completed \ seen :
         /\ seen' = seen \cup {j}
         /\ RecordResult(scan_port(family, Plan[j], fut[j]))
    /\ UNCHANGED <<config, host, family, fut, k, banners, detected_services,
                   result_obj, written, intr, snap, first_int, resolved, stale, others>>

\* scan_range: every future was yielded; the with block and the summary end.
LoopDone ==
    /\ pc = "loop"
    /\ seen = DOMAIN fut
    /\ pc' = "finalize"
    /\ UNCHANGED <<config, host, family, fut, seen, k, cur, open_ports, banners,
                   detected_services, result_obj, written, intr, snap, first_int, resolved, stale, others>>

\* The sequential scans (list, single, scan_common_ports): the main thread
\* calls scan_port for the next port, or the loop is over.
SeqNext ==
    /\ pc = "seq"
    /\ IF k <= Len(Plan)
       THEN /\ fut' = [fut EXCEPT ![k] = "running"]
            /\ pc' = "probe"
               ELSE /\ pc' = "finalize"
            /\ UNCHANGED fut
    /\ UNCHANGED <<config, host, family, seen, k, cur, open_ports, banners,
                   detected_services, result_obj, written, intr, snap, first_int, resolved, stale, others>>

\* The main thread's scan_port returns; the body up to append.
SeqProbeDone ==
    /\ pc = "probe"
    /\ \E o \in Outcomes :
         /\ fut' = [fut EXCEPT ![k] = o]
         /\ RecordResult(scan_port(family, Plan[k], o))
    /\ k' = k + 1
    /\ UNCHANGED <<config, host, family, seen, banners, detected_services,
                   result_obj, written, intr, snap, first_int, resolved, stale, others>>

\* `if do_banner:` grab_banner returns and banners[result] is written.
GrabBanner ==
    /\ pc = "banner"
    /\ \E b \in GrabResults :
         banners' = DictSet(banners, cur,
                            IF b # None /\ b[1] # <<>> THEN b ELSE None)
    /\ pc' = AfterBannerPc
    /\ cur' = IF AfterBannerPc = BackPc THEN NoPort ELSE cur
    /\ UNCHANGED <<config, host, family, fut, seen, k, open_ports,
                   detected_services, result_obj, written, intr, snap, first_int, resolved, stale, others>>

\* `if do_service_detect:` detected_services[result] is written.
DetectService ==
    /\ pc = "service"
    /\ detected_services' =
         DictSet(detected_services, cur,
                 detect_service_from_banner(cur, DictGet(banners, cur)))
    /\ pc' = BackPc
    /\ cur' = NoPort
    /\ UNCHANGED <<config, host, family, fut, seen, k, open_ports, banners,
                   result_obj, written, intr, snap, first_int, resolved, stale, others>>

\* Ctrl-C: KeyboardInterrupt is raised in the main thread inside the try
\* block.  Inside scan_range's with block it first runs the executor's
\* __exit__; in a sequential scan it also abandons the scan_port in progress.
KeyboardInterrupt ==
    /\ pc \in {"executor", "submit", "loop", "banner", "service", "seq", "probe"}
    /\ intr' = "kbd"
    /\ snap' = Some([open |-> open_ports, started |-> Started, done |-> Completed])
    /\ first_int' = IF first_int = 0 THEN host ELSE first_int
    /\ pc' = IF ExecutorAlive THEN "shutdown" ELSE "finalize"
    /\ fut' = IF pc = "probe" THEN [fut EXCEPT ![k] = "aborted"] ELSE fut
    /\ UNCHANGED <<config, host, family, seen, k, cur, open_ports, banners,
                   detected_services, result_obj, written, resolved, stale, others>>

\* Ctrl-C while __exit__ joins the workers raises KeyboardInterrupt out of
\* shutdown(wait=True) when work is still queued or running.
ShutdownInterruptible == Queued \cup Running # {}

\* A second Ctrl-C, during the executor's shutdown: `except KeyboardInterrupt`
\* runs at once and the scan is finalized, while the executor's workers go on
\* draining its queue on their own.
SecondInterrupt ==
    /\ pc = "shutdown"
    /\ ShutdownInterruptible
    /\ pc' = "finalize"
    /\ stale' = TRUE
    /\ fut' = [j \in DOMAIN fut |->
                IF fut[j] \in {"queued", "running"} THEN "stale" ELSE fut[j]]
    /\ UNCHANGED <<config, host, family, seen, k, cur, open_ports, banners,
                   detected_services, result_obj, written, intr, snap,
                   first_int, resolved, others>>

\* The abandoned executor's workers finish the last of its probes.
StaleDrain ==
    /\ stale
    /\ stale' = FALSE
    /\ UNCHANGED <<config, host, pc, family, fut, seen, k, cur, open_ports,
                   banners, detected_services, result_obj, written, intr, snap,
                   first_int, resolved, others>>

\* ThreadPoolExecutor.__exit__: shutdown(wait=True) returns once the workers
\* have drained the queue, then `except KeyboardInterrupt` runs.
Shutdown ==
    /\ pc = "shutdown"
    /\ Queued = {} /\ Running = {}
    /\ pc' = "finalize"
    /\ UNCHANGED <<config, host, family, fut, seen, k, cur, open_ports, banners,
                   detected_services, result_obj, written, intr, snap, first_int, resolved, stale, others>>

\* A scan_one_target that drops the report of an interrupted scan.
DropPartialReport(w, h) == IF intr = "kbd" THEN w ELSE Append(w, h)

\* write_scan_result(output_file, output_format, result_obj, append=True):
\* the sink's log of the targets it was called for.
WriteScanResult(w, h) == Append(w, h)

\* result_obj is built and passed to write_scan_result; scan_one_target
\* returns to main()'s loop.
Finalize ==
    /\ pc = "finalize"
    /\ result_obj' =
         Some([target |-> host,
               family |-> family,
               open_ports |-> sorted(open_ports),
               banners |-> {str(p) : p \in DOMAIN banners},
               detected_services |-> {str(p) : p \in DOMAIN detected_services}])
    /\ written' = WriteScanResult(written, host)
    /\ host' = host + 1
    /\ pc' = NextHostPc
    /\ UNCHANGED <<config, family, fut, seen, k, cur, open_ports, banners,
                   detected_services, intr, snap, first_int, resolved, stale, others>>

Next ==
    \/ ScanOneTarget
    \/ Dispatch
    \/ CreateExecutor
    \/ Submit
    \/ WorkerStart
    \/ WorkerFinish
    \/ AsCompleted
    \/ LoopDone
    \/ SeqNext
    \/ SeqProbeDone
    \/ GrabBanner
    \/ DetectService
    \/ KeyboardInterrupt
    \/ Shutdown
    \/ SecondInterrupt
    \/ StaleDrain
    \/ Finalize

Spec == Init /\ [][Next]_vars

\* The steps of the main thread, Ctrl-C apart.
MainStep ==
    \/ ScanOneTarget
    \/ Dispatch
    \/ CreateExecutor
    \/ Submit
    \/ AsCompleted
    \/ LoopDone
    \/ SeqNext
    \/ SeqProbeDone
    \/ GrabBanner
    \/ DetectService
    \/ Shutdown
    \/ Finalize

\* The steps of the pool's worker threads.
WorkerStep == WorkerStart \/ WorkerFinish \/ StaleDrain

\* The scan run when every blocking call returns and the threads are
\* scheduled fairly; Ctrl-C may or may not come.
LiveSpec == Spec /\ WF_vars(MainStep) /\ WF_vars(WorkerStep)

\* ------------------------------------------------- properties of Spec
Count(s, x) == Cardinality({j \in 1..Len(s) : s[j] = x})

StrictlyAscending(s) == \A j \in 1..(Len(s) - 1) : s[j] < s[j + 1]

NonDescending(s) == \A j \in 1..(Len(s) - 1) : s[j] <= s[j + 1]

ScanPcs ==
    {"executor", "submit", "loop", "banner", "service", "seq", "probe",
     "shutdown", "finalize"}

Report == result_obj[1]

\* C1: the open_ports of every report handed to the sink is strictly
\* ascending, hence free of duplicates, for every PortSpec.
C1_ReportStrictlyAscending ==
    result_obj # None => StrictlyAscending(Report.open_ports)

\* C2: at every moment of a target's scan and in the emitted report, the keys
\* of banners and of detected_services are ports of open_ports.
C2_KeysWithinOpenPorts ==
    /\ DOMAIN banners \subseteq SeqSet(open_ports)
    /\ DOMAIN detected_services \subseteq SeqSet(open_ports)
    /\ result_obj # None =>
         /\ Report.banners \subseteq {str(p) : p \in SeqSet(Report.open_ports)}
         /\ Report.detected_services
              \subseteq {str(p) : p \in SeqSet(Report.open_ports)}

C2_Witness ==
    /\ result_obj # None
    /\ intr = "kbd"
    /\ Report.banners # {}
    /\ Report.detected_services # {}
    /\ Report.banners # {str(p) : p \in SeqSet(Report.open_ports)}

\* C3: open_ports holds a port only as often as a probe of that port, a port
\* of the PortSpec, ended OPEN; CLOSED and ERROR probes add nothing.
C3_OnlyOpenProbesRecorded ==
    /\ \A p \in SeqSet(open_ports) :
         /\ p \in SeqSet(Plan)
         /\ Count(open_ports, p)
              <= Cardinality({j \in DOMAIN fut : Plan[j] = p /\ fut[j] = "OPEN"})
    /\ result_obj # None =>
         \A p \in SeqSet(Report.open_ports) :
           Count(Report.open_ports, p)
             <= Cardinality({j \in DOMAIN fut : Plan[j] = p /\ fut[j] = "OPEN"})

C3_Witness ==
    /\ result_obj # None
    /\ Report.open_ports # <<>>
    /\ \E j \in DOMAIN fut :
         fut[j] \in {"CLOSED", "ERROR"} /\ Plan[j] \notin SeqSet(Report.open_ports)

\* C4: the report of an interrupted scan holds exactly the ports recorded
\* before the interrupt, in ascending order, and nothing of a probe that had
\* not completed when the interrupt arrived.
C4_InterruptedReportIsSnapshot ==
    (intr = "kbd" /\ result_obj # None) =>
      LET atInt == snap[1]
          donePorts == {Plan[j] : j \in atInt.done}
      IN  /\ NonDescending(Report.open_ports)
          /\ \A p \in SeqSet(Plan) :
               Count(Report.open_ports, p) = Count(atInt.open, p)
          /\ SeqSet(Report.open_ports) \subseteq donePorts
          /\ Report.banners \subseteq {str(p) : p \in donePorts}
          /\ Report.detected_services \subseteq {str(p) : p \in donePorts}

C4_Witness ==
    /\ intr = "kbd"
    /\ result_obj # None
    /\ Report.open_ports # <<>>
    /\ \E j \in DOMAIN fut : fut[j] = "OPEN" /\ j \notin snap[1].done

\* C5: write_scan_result is called exactly once for every target whose
\* resolution succeeded, as soon as its scan is over, however it ended.
C5_ExactlyOneReport ==
    \A t \in 1..Len(resolved) :
      Count(written, t) = IF t < host /\ resolved[t] THEN 1 ELSE 0

C5_Witness ==
    /\ pc = "exit"
    /\ written = <<1, 2>>
    /\ first_int = 1
    /\ intr = "err"

\* C6: after the interrupt of a target's scan no probe of that target is
\* started that had not been started before.
C6_NoProbeStartedAfterInterrupt ==
    intr = "kbd" => Started \subseteq snap[1].started

\* C7: once a target's scan was interrupted, no probe is started for the
\* targets that follow it.
C7_NoProbeForLaterTargets ==
    (first_int # 0 /\ host > first_int /\ pc \in ScanPcs) => Started = {}

\* C8: a target whose resolution fails is never scanned and gets no report,
\* and the run still processes every target.
C8_UnresolvedSkipped ==
    /\ pc \in ScanPcs => resolved[host]
    /\ (pc = "resolved" /\ ~resolved[host]) => Started = {}
    /\ \A t \in 1..Len(resolved) : ~resolved[t] => Count(written, t) = 0
    /\ pc = "exit" =>
         /\ Len(resolved) = n_targets
         /\ \A t \in 1..n_targets : resolved[t] => Count(written, t) = 1

C8_Witness ==
    /\ pc = "exit"
    /\ resolved = <<FALSE, TRUE>>
    /\ written = <<2>>
    /\ Started # {}

\* ------------------------------------- resolve_target alone (SpecResolve)
AnyFamilies == {"AF_INET", "AF_INET6", "AF_UNIX"}

ResolveInputs ==
    {Literal4, Literal6, Hostname("gaierror", <<>>), Hostname("error", <<>>)}
    \cup {Hostname("no", infos) :
            infos \in UNION {[1..n -> AnyFamilies] : n \in 0..MaxInfos}}

InitResolve ==
    /\ r_target \in ResolveInputs
    /\ r_result = None
    /\ IdleScan
    /\ IdleExpand
    /\ IdleDetect
    /\ IdleProbe
    /\ IdleParse

Resolve ==
    /\ r_result = None
    /\ r_result' = Some(resolve_target(r_target))
    /\ UNCHANGED <<r_target, scanVars, expandVars, detectVars, probeVars, parseVars>>

NextResolve == Resolve

SpecResolve == InitResolve /\ [][NextResolve]_vars

\* C9: for a name, an IPv4 candidate is chosen whenever the resolver's
\* answer holds one, at whatever position; the first IPv6 candidate is chosen
\* only when it holds no IPv4 candidate.
C9_PrefersIPv4 ==
    (r_result # None /\ r_target.kind = "name" /\ r_target.raises = "no") =>
      LET infos == r_target.infos
          res == r_result[1]
          v4 == {j \in 1..Len(infos) : infos[j] = "AF_INET"}
          v6 == {j \in 1..Len(infos) : infos[j] = "AF_INET6"}
      IN  /\ v4 # {} => (res.ok /\ res.family = "AF_INET")
          /\ (v4 = {} /\ v6 # {}) =>
               (res.ok /\ res.chosen = CHOOSE j \in v6 : \A j2 \in v6 : j <= j2)
          /\ (res.ok /\ res.family = "AF_INET6") => v4 = {}

\* ---------------------------- main()'s CIDR expansion loop (SpecExpand)
RECURSIVE Pow2(_)
Pow2(n) == IF n = 0 THEN 1 ELSE 2 * Pow2(n - 1)

\* An entry of targets: a host, or a string with '/' that ip_network accepts
\* (an IPv4 or IPv6 network with `bits` host bits) or rejects.
PlainEntry == [cidr |-> FALSE, valid |-> TRUE, version |-> 4, bits |-> 0]

BadCidr == [cidr |-> TRUE, valid |-> FALSE, version |-> 4, bits |-> 0]

Cidr(v, b) == [cidr |-> TRUE, valid |-> TRUE, version |-> v, bits |-> b]

Entries ==
    {PlainEntry, BadCidr} \cup {Cidr(v, b) : v \in {4, 6}, b \in 0..MaxHostBits}

\* net.num_addresses
num_addresses(e) == Pow2(e.bits)

\* network.hosts(), as offsets into the network: a single address and a
\* point-to-point pair are returned whole; otherwise the network address and,
\* for IPv4, the broadcast address are left out.
hosts(e) ==
    IF e.bits <= 1 THEN [j \in 1..Pow2(e.bits) |-> j - 1]
    ELSE IF e.version = 4 THEN [j \in 1..(Pow2(e.bits) - 2) |-> j]
    ELSE [j \in 1..(Pow2(e.bits) - 1) |-> j]

\* expand_cidr_if_needed(t) for entry number i.
expand_cidr_if_needed(i, e) ==
    IF e.cidr THEN [j \in 1..Len(hosts(e)) |-> <<i, hosts(e)[j]>>]
    ELSE <<<<i, 0>>>>

\* `if num_hosts > args.max_hosts and not args.force_network_scan`
NeedsConfirm(e) == num_addresses(e) > x_max_hosts /\ ~x_force

InitExpand ==
    /\ x_targets \in UNION {[1..n -> Entries] : n \in 1..MaxEntries}
    /\ x_max_hosts \in 0..MaxMaxHosts
    /\ x_force \in BOOLEAN
    /\ x_i = 1
    /\ x_pc = "parse"
    /\ x_expanded = <<>>
    /\ x_confirms = <<>>
    /\ x_answer = <<>>
    /\ x_ports_mode = "unset"
    /\ IdleScan
    /\ IdleResolve
    /\ IdleDetect
    /\ IdleProbe
    /\ IdleParse

xconfig == <<x_targets, x_max_hosts, x_force, x_ports_mode>>

MaxSpecLen == 3

\* The values of --ports: absent, or a string of up to MaxSpecLen characters.
PortsArgs ==
    {None} \cup {Some(t) : t \in UNION {[1..n -> {"1", "2", "-", ",", "a", " "}] :
                                          n \in 0..MaxSpecLen}}

\* What parse_ports_spec makes of them, as far as main()'s control flow goes.
ParseOutcomes ==
    {[ok |-> parse_ports_spec(a).ok, mode |-> parse_ports_spec(a).mode] :
        a \in PortsArgs}

\* A main() that carries on with the loop after a failed parse.
LenientParse(r) == "loop"

\* After line 557: the ValueError of parse_ports_spec is caught nowhere, the
\* process ends with it; otherwise the CIDR loop is next.
AfterParse(r) == IF r.ok THEN "loop" ELSE "fatal"

\* line 557: ports_mode, ports_data = parse_ports_spec(args.ports)
ParsePorts ==
    /\ x_pc = "parse"
    /\ \E r \in ParseOutcomes :
         /\ x_ports_mode' = r.mode
         /\ x_pc' = AfterParse(r)
    /\ UNCHANGED <<x_targets, x_max_hosts, x_force, x_i, x_expanded, x_confirms,
                   x_answer, scanVars, resolveVars, detectVars, probeVars, parseVars>>

\* One entry of `for t in targets:` up to the prompt, if any.
ExpandEntry ==
    /\ x_pc = "loop"
    /\ x_i <= Len(x_targets)
    /\ LET e == x_targets[x_i] IN
         IF ~e.cidr
         THEN /\ x_expanded' = Append(x_expanded, <<x_i, 0>>)
              /\ x_i' = x_i + 1
              /\ UNCHANGED <<x_pc, x_confirms>>
         ELSE IF ~e.valid
         THEN /\ x_i' = x_i + 1
              /\ UNCHANGED <<x_pc, x_expanded, x_confirms>>
         ELSE IF NeedsConfirm(e)
         THEN /\ x_pc' = "prompt"
              /\ x_confirms' = Append(x_confirms, x_i)
              /\ UNCHANGED <<x_i, x_expanded>>
         ELSE /\ x_expanded' = x_expanded \o expand_cidr_if_needed(x_i, e)
              /\ x_i' = x_i + 1
              /\ UNCHANGED <<x_pc, x_confirms>>
    /\ UNCHANGED <<xconfig, x_answer, scanVars, resolveVars,
                   detectVars, probeVars, parseVars>>

\* A loop that expands the network whatever confirm_prompt answered.
ExpandAnyway(ans, i, e) == expand_cidr_if_needed(i, e)

\* `if not confirm_prompt(...): continue`, else expand_cidr_if_needed(t):
\* what entry i adds to expanded_targets after the answer.
AfterConfirm(ans, i, e) == IF ans THEN expand_cidr_if_needed(i, e) ELSE <<>>

\* confirm_prompt returns (False also when input() raises); the entry is
\* skipped or expanded.  x_answer collects the answers, in step with x_confirms.
ConfirmPrompt ==
    /\ x_pc = "prompt"
    /\ \E ans \in BOOLEAN :
         /\ x_answer' = Append(x_answer, ans)
         /\ x_expanded' = x_expanded \o AfterConfirm(ans, x_i, x_targets[x_i])
    /\ x_i' = x_i + 1
    /\ x_pc' = "loop"
    /\ UNCHANGED <<xconfig, x_confirms, scanVars, resolveVars,
                   detectVars, probeVars, parseVars>>

\* The loop is over: sys.exit(1) without targets, else on to the scans.
ExpandDone ==
    /\ x_pc = "loop"
    /\ x_i > Len(x_targets)
    /\ x_pc' = IF x_expanded = <<>> THEN "exit1" ELSE "scan"
    /\ UNCHANGED <<xconfig, x_i, x_expanded, x_confirms, x_answer, scanVars,
                   resolveVars, detectVars, probeVars, parseVars>>

NextExpand == ParsePorts \/ ExpandEntry \/ ConfirmPrompt \/ ExpandDone

SpecExpand == InitExpand /\ [][NextExpand]_vars

\* The entries the loop has decided whether to prompt for.
Decided == {j \in 1..Len(x_targets) : j < x_i \/ (j = x_i /\ x_pc = "prompt")}

\* C10: the confirmation callback is invoked for a CIDR entry exactly when
\* its count of usable host addresses exceeds max_hosts and the override
\* flag is off.
C10_ConfirmIffUsableHostsExceed ==
    \A j \in Decided :
      LET e == x_targets[j] IN
      (e.cidr /\ e.valid) =>
        (Count(x_confirms, j) = 1 <=> (Len(hosts(e)) > x_max_hosts /\ ~x_force))

\* The hosts entry j contributed to expanded_targets.
HostsOf(j) == {h \in SeqSet(x_expanded) : h[1] = j}

Declined(j) ==
    \E n \in 1..Len(x_answer) : x_confirms[n] = j /\ ~x_answer[n]

\* C11: an entry whose expansion was declined, or that is no valid network,
\* adds no target and ends nothing: the loop goes on, and at its end every
\* other entry has been expanded in full.
C11_DeclinedOrInvalidSkipped ==
    /\ \A j \in 1..Len(x_targets) :
         LET e == x_targets[j] IN
         ((e.cidr /\ ~e.valid /\ j < x_i) \/ Declined(j)) =>
           /\ HostsOf(j) = {}
           /\ x_pc \in {"loop", "prompt", "scan", "exit1"}
    /\ x_pc \in {"scan", "exit1"} =>
         /\ x_i = Len(x_targets) + 1
         /\ \A j \in 1..Len(x_targets) :
              LET e == x_targets[j] IN
              (~e.cidr \/ (e.valid /\ ~Declined(j))) =>
                Cardinality(HostsOf(j)) = Len(expand_cidr_if_needed(j, e))

C11_Witness ==
    /\ x_pc = "scan"
    /\ Len(x_targets) = 2
    /\ Declined(1)
    /\ x_targets[2].cidr /\ x_targets[2].valid
    /\ HostsOf(2) # {}

C13_OneTargetAtATime ==
    /\ stale => Running = {}
    /\ StrictlyAscending(written)


\* ------------------------------------ service classification (SpecDetect)

MaxWords == 2

\* The SSH identification string "SSH-2.0-OpenSSH_8.9".
SshBanner ==
    <<"S", "S", "H", "-", "2", ".", "0", "-", "O", "p", "e", "n", "S", "S", "H",
      "_", "8", ".", "9">>

\* Words banners are built from: every keyword of checks, two words in
\* capitals, two words no keyword occurs in, and the SSH identification string.
Vocabulary ==
    {checks[j][1] : j \in 1..Len(checks)}
    \cup {<<"E", "S", "M", "T", "P">>, <<"H", "T", "T", "P", "/">>,
          <<"x", "y", "z">>, <<" ">>, SshBanner}

RECURSIVE Concat(_)
Concat(ws) == IF ws = <<>> THEN <<>> ELSE Head(ws) \o Concat(Tail(ws))

DetectBanners ==
    {Concat(ws) : ws \in UNION {[1..n -> Vocabulary] : n \in 0..MaxWords}}

DetectPorts == {22, 80, 9999}

InitDetect ==
    /\ d_port \in DetectPorts
    /\ d_banner \in {None} \cup {Some(b) : b \in DetectBanners}
    /\ d_result = None
    /\ IdleScan
    /\ IdleResolve
    /\ IdleExpand
    /\ IdleProbe
    /\ IdleParse

Detect ==
    /\ d_result = None
    /\ d_result' = Some(detect_service_from_banner(d_port, d_banner))
    /\ UNCHANGED <<d_port, d_banner, scanVars, resolveVars, expandVars, probeVars, parseVars>>

NextDetect == Detect

SpecDetect == InitDetect /\ [][NextDetect]_vars

\* The rules of checks whose keyword occurs in the lowercased banner.
Matching(b) == {j \in 1..Len(checks) : Contains(lower(b), checks[j][1])}

Least(S) == CHOOSE m \in S : \A n \in S : m <= n

\* C14: detect_service_from_banner returns the base name, or "unknown" without
\* one, when the banner is absent or no keyword occurs in it; otherwise the
\* label of the first rule in rule order whose keyword occurs in the lowercased
\* banner, as "<base> (<label>)" with a base name and alone without one. In
\* particular (22, "SSH-2.0-OpenSSH_8.9") gives "ssh (ssh)" and (9999, absent)
\* gives "unknown".
C14_FirstMatchingRuleLabels ==
    d_result # None =>
        LET res == d_result[1]
            hasBase == d_port \in DOMAIN ServicesDb
            rules == IF d_banner = None THEN {} ELSE Matching(d_banner[1])
        IN  /\ rules = {} =>
                res = (IF hasBase THEN ServicesDb[d_port] ELSE "unknown")
            /\ rules # {} =>
                LET label == checks[Least(rules)][2]
                IN  res = (IF hasBase
                           THEN ServicesDb[d_port] \o " (" \o label \o ")"
                           ELSE label)
            /\ (d_port = 22 /\ d_banner = Some(SshBanner)) => res = "ssh (ssh)"
            /\ (d_port = 9999 /\ d_banner = None) => res = "unknown"

C14_Witness ==
    /\ d_port = 22
    /\ d_banner = Some(SshBanner)
    /\ d_result = Some("ssh (ssh)")


\* ------------------------------------------ one unit of work (SpecProbe)

ProbePorts == {22, 80, 443}

tls_ports == {443, 8443, 9443}

http_ports == {80, 8080, 8000, 81, 8888, 8008}

\* What recv(4096) can hand back: nothing (the peer closed), line ends only,
\* one byte that is not UTF-8, a line of text, text around such a byte.
RecvSamples ==
    {<<>>, <<"\r", "\n">>, <<"xFF">>, <<"O", "K", "\r", "\n">>,
     <<" ", "xFF", "O", "K">>}

\* What connect_ex returns: 0, or the errno of a refused or timed-out connect.
ConnectResults == {"0", "ECONNREFUSED", "EAGAIN"}

IsUtf8(c) == c # "xFF"

\* bytes.decode('utf-8', errors='ignore')
decode(b) == SelectSeq(b, IsUtf8)

\* str(banner) of a bytes object: its repr.
StrOfBytes(b) == <<"b", "'">> \o b \o <<"'">>

probeIn == <<u_family, u_port, u_mode, u_verbose, u_do_banner>>

notProbe == <<scanVars, resolveVars, expandVars, detectVars, parseVars>>

grabVars == <<g_sock, g_tls, g_banner, g_failed, g_ret>>

InitProbe ==
    /\ u_family \in UsableFamilies
    /\ u_port \in ProbePorts
    /\ u_mode \in {"range", "list", "single", "common"}
    /\ u_verbose \in BOOLEAN
    /\ u_do_banner \in BOOLEAN
    /\ u_pc = "sp_socket"
    /\ u_sock = "none"
    /\ u_fault = "none"
    /\ u_conn = "none"
    /\ u_result = None
    /\ u_log = <<>>
    /\ g_sock = "none"
    /\ g_tls = "none"
    /\ g_banner = <<>>
    /\ g_failed = {}
    /\ g_ret = None
    /\ IdleScan
    /\ IdleResolve
    /\ IdleExpand
    /\ IdleDetect
    /\ IdleParse

\* scan_port: any exception of the try body goes to `except Exception`.
ScanPortRaise(step) ==
    /\ u_fault' = step
    /\ u_pc' = "sp_except"

\* scan_port, lines 93-96: the guard, then socket.socket(...)
ScanPortSocket ==
    /\ u_pc = "sp_socket"
    /\ IF u_family = "None"
       THEN /\ u_result' = Some(NoPort)
            /\ u_pc' = "log"
            /\ UNCHANGED <<u_sock, u_fault>>
       ELSE \/ /\ u_sock' = "open"
               /\ u_pc' = "sp_settimeout"
               /\ UNCHANGED <<u_fault, u_result>>
            \/ /\ ScanPortRaise("socket")
               /\ UNCHANGED <<u_sock, u_result>>
    /\ UNCHANGED <<probeIn, u_conn, u_log, grabVars, notProbe>>

\* line 97: sock.settimeout(self.timeout)
ScanPortSetTimeout ==
    /\ u_pc = "sp_settimeout"
    /\ \/ u_pc' = "sp_connect" /\ UNCHANGED u_fault
       \/ ScanPortRaise("settimeout")
    /\ UNCHANGED <<probeIn, u_sock, u_conn, u_result, u_log, grabVars, notProbe>>

\* lines 98-102: sock.connect_ex(sockaddr)
ScanPortConnect ==
    /\ u_pc = "sp_connect"
    /\ \/ /\ u_conn' \in ConnectResults
          /\ u_pc' = "sp_close"
          /\ UNCHANGED u_fault
       \/ /\ ScanPortRaise("connect")
          /\ UNCHANGED u_conn
    /\ UNCHANGED <<probeIn, u_sock, u_result, u_log, grabVars, notProbe>>

\* lines 103-106: sock.close(), then the port or None
ScanPortClose ==
    /\ u_pc = "sp_close"
    /\ u_sock' = "closed"
    /\ u_result' = Some(IF u_conn = "0" THEN u_port ELSE NoPort)
    /\ u_pc' = "log"
    /\ UNCHANGED <<probeIn, u_fault, u_conn, u_log, grabVars, notProbe>>

\* lines 107-108: `except Exception: return None`, the socket is not touched
ScanPortExcept ==
    /\ u_pc = "sp_except"
    /\ u_result' = Some(NoPort)
    /\ u_pc' = "log"
    /\ UNCHANGED <<probeIn, u_sock, u_fault, u_conn, u_log, grabVars, notProbe>>

\* The interpreter finalizes a socket object nothing refers to any more and
\* closes its descriptor; when that happens after the return is up to it.
Finalizer ==
    /\ u_result # None
    /\ u_sock = "open"
    /\ u_sock' = "closed"
    /\ UNCHANGED <<probeIn, u_pc, u_fault, u_conn, u_result, u_log, grabVars,
                   notProbe>>

\* The line each loop prints for a probe's result: scan_range 274-291, the
\* list loop 438-454, the single port 457-473, scan_common_ports 307-310.
\* scan_range's "ERROR" line needs future.result() to raise, which scan_port
\* never lets happen.
OutcomeLine(mode, verbose, result) ==
    IF result # NoPort THEN <<"OPEN">>
    ELSE IF mode = "single" THEN <<"CLOSED">>
    ELSE IF mode \in {"range", "list"} /\ verbose THEN <<"CLOSED">>
    ELSE <<>>

LogOutcome ==
    /\ u_pc = "log"
    /\ u_log' = OutcomeLine(u_mode, u_verbose, u_result[1])
    /\ u_pc' = IF u_result[1] # NoPort /\ u_do_banner THEN "g_socket" ELSE "done"
    /\ UNCHANGED <<probeIn, u_sock, u_fault, u_conn, u_result, grabVars, notProbe>>

\* A grab_banner without its try blocks.
Propagate(step) == "raised"

\* grab_banner: the handler an exception of each statement lands in.
Handler(step) ==
    CASE step \in {"g_socket", "g_settimeout", "g_connect_close"} -> "g_except"
      [] step = "g_connect" -> "g_connect_close"
      [] step \in {"g_wrap", "g_tls_settimeout"} -> "g_plain_recv"
      [] step \in {"g_tls_send", "g_tls_recv"} -> "g_tls_recv2"
      [] step = "g_tls_recv2" -> "g_tls_close"
      [] step = "g_tls_close" -> "g_decode"
      [] step = "g_plain_recv" -> "g_plain_close"
      [] step = "g_plain_close" -> "g_decode"
      [] step = "g_http_send" -> "g_recv"
      [] step = "g_recv" -> "g_close"
      [] step = "g_close" -> "g_decode"
      [] OTHER -> "g_str"

GrabRaise(step) ==
    /\ g_failed' = g_failed \cup {step}
    /\ u_pc' = Handler(step)

GrabReturn(v) ==
    /\ g_ret' = Some(v)
    /\ u_pc' = "done"

scanPortVars == <<u_sock, u_fault, u_conn, u_result, u_log>>

\* lines 122-125: the guard, then socket.socket(...)
GrabSocket ==
    /\ u_pc = "g_socket"
    /\ IF u_family = "None"
       THEN /\ GrabReturn(None)
            /\ UNCHANGED <<g_sock, g_failed>>
       ELSE \/ /\ g_sock' = "open"
               /\ u_pc' = "g_settimeout"
               /\ UNCHANGED <<g_failed, g_ret>>
            \/ /\ GrabRaise("g_socket")
               /\ UNCHANGED <<g_sock, g_ret>>
    /\ UNCHANGED <<probeIn, scanPortVars, g_tls, g_banner, notProbe>>

\* line 126: sock.settimeout(min(self.timeout, banner_timeout))
GrabSetTimeout ==
    /\ u_pc = "g_settimeout"
    /\ \/ u_pc' = "g_connect" /\ UNCHANGED g_failed
       \/ GrabRaise("g_settimeout")
    /\ UNCHANGED <<probeIn, scanPortVars, g_sock, g_tls, g_banner, g_ret, notProbe>>

\* lines 136-145: sock.connect(sockaddr), banner = b'', the branch on the port
GrabConnect ==
    /\ u_pc = "g_connect"
    /\ \/ /\ u_pc' = IF u_port \in tls_ports THEN "g_wrap"
                     ELSE IF u_port \in http_ports THEN "g_http_send"
                     ELSE "g_recv"
          /\ UNCHANGED g_failed
       \/ GrabRaise("g_connect")
    /\ UNCHANGED <<probeIn, scanPortVars, g_sock, g_tls, g_banner, g_ret, notProbe>>

\* lines 138-140: sock.close(); return None
GrabConnectClose ==
    /\ u_pc = "g_connect_close"
    /\ \/ /\ g_sock' = "closed"
          /\ GrabReturn(None)
          /\ UNCHANGED g_failed
       \/ /\ GrabRaise("g_connect_close")
          /\ UNCHANGED <<g_sock, g_ret>>
    /\ UNCHANGED <<probeIn, scanPortVars, g_tls, g_banner, notProbe>>

\* lines 147-148: ssl.create_default_context(), ctx.wrap_socket(sock, ...)
GrabWrap ==
    /\ u_pc = "g_wrap"
    /\ \/ /\ g_tls' = "open"
          /\ u_pc' = "g_tls_settimeout"
          /\ UNCHANGED g_failed
       \/ /\ GrabRaise("g_wrap")
          /\ UNCHANGED g_tls
    /\ UNCHANGED <<probeIn, scanPortVars, g_sock, g_banner, g_ret, notProbe>>

\* line 149: tls_sock.settimeout(...)
GrabTlsSetTimeout ==
    /\ u_pc = "g_tls_settimeout"
    /\ \/ u_pc' = "g_tls_send" /\ UNCHANGED g_failed
       \/ GrabRaise("g_tls_settimeout")
    /\ UNCHANGED <<probeIn, scanPortVars, g_sock, g_tls, g_banner, g_ret, notProbe>>

\* lines 152-153: tls_sock.sendall(req)
GrabTlsSend ==
    /\ u_pc = "g_tls_send"
    /\ \/ u_pc' = "g_tls_recv" /\ UNCHANGED g_failed
       \/ GrabRaise("g_tls_send")
    /\ UNCHANGED <<probeIn, scanPortVars, g_sock, g_tls, g_banner, g_ret, notProbe>>

\* line 154: banner = tls_sock.recv(4096) or b''
GrabTlsRecv ==
    /\ u_pc = "g_tls_recv"
    /\ \/ /\ g_banner' \in RecvSamples
          /\ u_pc' = "g_tls_close"
          /\ UNCHANGED g_failed
       \/ /\ GrabRaise("g_tls_recv")
          /\ UNCHANGED g_banner
    /\ UNCHANGED <<probeIn, scanPortVars, g_sock, g_tls, g_ret, notProbe>>

\* lines 155-160: the read attempted after a failed send or read
GrabTlsRecvAgain ==
    /\ u_pc = "g_tls_recv2"
    /\ \/ /\ g_banner' \in RecvSamples
          /\ u_pc' = "g_tls_close"
          /\ UNCHANGED g_failed
       \/ /\ GrabRaise("g_tls_recv2")
          /\ g_banner' = <<>>
    /\ UNCHANGED <<probeIn, scanPortVars, g_sock, g_tls, g_ret, notProbe>>

\* lines 161-164: tls_sock.close()
GrabTlsClose ==
    /\ u_pc = "g_tls_close"
    /\ \/ /\ g_tls' = "closed"
          /\ u_pc' = "g_decode"
          /\ UNCHANGED g_failed
       \/ /\ GrabRaise("g_tls_close")
          /\ UNCHANGED g_tls
    /\ UNCHANGED <<probeIn, scanPortVars, g_sock, g_banner, g_ret, notProbe>>

\* lines 165-170: TLS failed, banner = sock.recv(4096) or b''
GrabPlainRecv ==
    /\ u_pc = "g_plain_recv"
    /\ \/ /\ g_banner' \in RecvSamples
          /\ u_pc' = "g_plain_close"
          /\ UNCHANGED g_failed
       \/ /\ GrabRaise("g_plain_recv")
          /\ g_banner' = <<>>
    /\ UNCHANGED <<probeIn, scanPortVars, g_sock, g_tls, g_ret, notProbe>>

\* lines 171-174: sock.close() of the fallback
GrabPlainClose ==
    /\ u_pc = "g_plain_close"
    /\ \/ /\ g_sock' = "closed"
          /\ u_pc' = "g_decode"
          /\ UNCHANGED g_failed
       \/ /\ GrabRaise("g_plain_close")
          /\ UNCHANGED g_sock
    /\ UNCHANGED <<probeIn, scanPortVars, g_tls, g_banner, g_ret, notProbe>>

\* lines 177-182: sock.sendall(req) on an HTTP-like port
GrabHttpSend ==
    /\ u_pc = "g_http_send"
    /\ \/ u_pc' = "g_recv" /\ UNCHANGED g_failed
       \/ GrabRaise("g_http_send")
    /\ UNCHANGED <<probeIn, scanPortVars, g_sock, g_tls, g_banner, g_ret, notProbe>>

\* lines 183-186: banner = sock.recv(4096) or b''
GrabRecv ==
    /\ u_pc = "g_recv"
    /\ \/ /\ g_banner' \in RecvSamples
          /\ u_pc' = "g_close"
          /\ UNCHANGED g_failed
       \/ /\ GrabRaise("g_recv")
          /\ g_banner' = <<>>
    /\ UNCHANGED <<probeIn, scanPortVars, g_sock, g_tls, g_ret, notProbe>>

\* lines 187-190: sock.close()
GrabClose ==
    /\ u_pc = "g_close"
    /\ \/ /\ g_sock' = "closed"
          /\ u_pc' = "g_decode"
          /\ UNCHANGED g_failed
       \/ /\ GrabRaise("g_close")
          /\ UNCHANGED g_sock
    /\ UNCHANGED <<probeIn, scanPortVars, g_tls, g_banner, g_ret, notProbe>>

\* lines 192-197: `if not banner: return None`, decode and strip, return text
GrabDecode ==
    /\ u_pc = "g_decode"
    /\ IF g_banner = <<>>
       THEN GrabReturn(None) /\ UNCHANGED g_failed
       ELSE \/ /\ GrabReturn(Some(strip(decode(g_banner))))
               /\ UNCHANGED g_failed
            \/ /\ GrabRaise("g_decode")
               /\ UNCHANGED g_ret
    /\ UNCHANGED <<probeIn, scanPortVars, g_sock, g_tls, g_banner, notProbe>>

\* lines 195-197: `except Exception: text = str(banner)`, return text
GrabStr ==
    /\ u_pc = "g_str"
    /\ GrabReturn(Some(StrOfBytes(g_banner)))
    /\ UNCHANGED <<probeIn, scanPortVars, g_sock, g_tls, g_banner, g_failed, notProbe>>

\* lines 198-199: the outer `except Exception: return None`
GrabExcept ==
    /\ u_pc = "g_except"
    /\ GrabReturn(None)
    /\ UNCHANGED <<probeIn, scanPortVars, g_sock, g_tls, g_banner, g_failed, notProbe>>

NextProbe ==
    \/ ScanPortSocket
    \/ ScanPortSetTimeout
    \/ ScanPortConnect
    \/ ScanPortClose
    \/ ScanPortExcept
    \/ Finalizer
    \/ LogOutcome
    \/ GrabSocket
    \/ GrabSetTimeout
    \/ GrabConnect
    \/ GrabConnectClose
    \/ GrabWrap
    \/ GrabTlsSetTimeout
    \/ GrabTlsSend
    \/ GrabTlsRecv
    \/ GrabTlsRecvAgain
    \/ GrabTlsClose
    \/ GrabPlainRecv
    \/ GrabPlainClose
    \/ GrabHttpSend
    \/ GrabRecv
    \/ GrabClose
    \/ GrabDecode
    \/ GrabStr
    \/ GrabExcept

SpecProbe == InitProbe /\ [][NextProbe]_vars

GrabCalled == u_result # None /\ u_result[1] # NoPort /\ u_do_banner /\ u_pc # "log"

\* C15: grab_banner never raises to its caller: whichever statement fails
\* (socket creation, timeout, connect, TLS handshake, send, read, close,
\* decode), the call ends by returning a value, and when no bytes were
\* received the value is None.
C15_GrabBannerNeverRaises ==
    /\ u_pc # "raised"
    /\ (GrabCalled /\ u_pc = "done") =>
          /\ g_ret # None
          /\ g_banner = <<>> => g_ret[1] = None
    /\ (GrabCalled /\ u_pc # "done") => g_ret = None

C15_Witness ==
    /\ u_pc = "done"
    /\ g_failed # {}
    /\ g_banner = <<>>
    /\ g_ret = Some(None)


\* C17: a probe that hit a local fault (socket creation, settimeout or the
\* connection attempt raised) is never logged as CLOSED by the loop that
\* issued it.
C17_FaultNeverLoggedClosed ==
    u_fault # "none" => "CLOSED" \notin SeqSet(u_log)

\* C18: every socket scan_port created is closed by the time scan_port has
\* returned, whichever way it returned.
C18_SocketClosedAtReturn ==
    u_result # None => u_sock # "open"


\* C16: when parse_ports_spec fails, main() ends there: no CIDR confirmation
\* has been or will be requested, no entry is expanded, no target is
\* resolved, no probe is issued and no report is emitted.
C16_ParseFailureIsFatal ==
    /\ x_ports_mode = "error" => x_pc = "fatal"
    /\ x_pc \in {"parse", "fatal"} =>
          /\ x_confirms = <<>>
          /\ x_answer = <<>>
          /\ x_expanded = <<>>
          /\ x_i = 1
          /\ resolved = <<>>
          /\ Started = {}
          /\ written = <<>>

C16_Witness ==
    /\ x_pc = "fatal"
    /\ x_ports_mode = "error"
    /\ \E j \in 1..Len(x_targets) : x_targets[j].cidr /\ NeedsConfirm(x_targets[j])


\* C19: a port is in open_ports only once its banner (with banner grabbing
\* on) and its detected service (with service detection on) have been
\* written, in every state of the scan and in every report.
C19_AnnotatedBeforeRecorded ==
    /\ \A p \in SeqSet(open_ports) :
         /\ do_banner => p \in DOMAIN banners
         /\ do_service_detect => p \in DOMAIN detected_services
    /\ result_obj # None =>
         \A p \in SeqSet(Report.open_ports) :
           /\ do_banner => str(p) \in Report.banners
           /\ do_service_detect => str(p) \in Report.detected_services

accumulators == <<open_ports, banners, detected_services>>

\* C20: open_ports, banners and detected_services change only in a step of
\* the main thread: a new scanner, or the loop body working on one completed
\* probe (its append, then its banner, then its detected service); no step of
\* a pool worker changes them, and no step that changes them moves a worker.
C20_AccumulatorsWrittenByScheduler ==
    [][accumulators' # accumulators =>
         /\ pc \in {"resolve", "loop", "probe", "banner", "service"}
         /\ (ports_mode = "range" /\ pc # "resolve") => fut' = fut
         /\ pc = "resolve" => accumulators' = <<<<>>, EmptyDict, EmptyDict>>
         /\ pc = "loop" =>
              /\ \E j \in Completed \ seen :
                   /\ seen' = seen \cup {j}
                   /\ open_ports' = Append(open_ports, Plan[j])
              /\ UNCHANGED <<banners, detected_services>>
         /\ pc = "probe" =>
              /\ open_ports' = Append(open_ports, Plan[k])
              /\ UNCHANGED <<banners, detected_services>>
         /\ pc = "banner" =>
              /\ DOMAIN banners' = DOMAIN banners \cup {cur}
              /\ UNCHANGED <<open_ports, detected_services>>
         /\ pc = "service" =>
              /\ DOMAIN detected_services' = DOMAIN detected_services \cup {cur}
              /\ UNCHANGED <<open_ports, banners>>]_vars

C20_Witness ==
    /\ ports_mode = "range"
    /\ threads = MaxThreads
    /\ Running # {}
    /\ pc = "service"
    /\ cur \in SeqSet(open_ports)
    /\ cur \in DOMAIN banners


\* C21: a report finalized without an interruption is finalized after a probe
\* has completed for every port of the port specification.
C21_ReportAfterAllProbes ==
    (result_obj # None /\ intr # "kbd") =>
        \A j \in 1..Len(Plan) : fut[j] \in Outcomes


\* C22: when every connection attempt, handshake and read returns and the
\* threads are scheduled fairly, main()'s loop gets through every target,
\* interrupted or not, and the run ends with no worker left probing.
C22_RunTerminates ==
    <>(pc = "exit" /\ host = n_targets + 1 /\ ~stale /\ Running = {})

C22_Witness ==
    /\ pc = "exit"
    /\ n_targets = MaxTargets
    /\ first_int = 1
    /\ Len(written) = MaxTargets
    /\ ~stale


\* C23: grab_banner never returns the empty string: received bytes that
\* decode and strip to nothing give None.
C23_EmptyBannerIsAbsent ==
    (g_ret # None /\ g_ret[1] # None) => g_ret[1][1] # <<>>


\* ------------------------------ from --ports to scan_range (SpecParse)

InitParse ==
    /\ p_arg \in PortsArgs
    /\ p_result = None
    /\ p_range = None
    /\ IdleScan
    /\ IdleResolve
    /\ IdleExpand
    /\ IdleDetect
    /\ IdleProbe

\* main(), line 557: ports_mode, ports_data = parse_ports_spec(args.ports)
ParseSpec ==
    /\ p_result = None
    /\ p_result' = Some(parse_ports_spec(p_arg))
    /\ UNCHANGED <<p_arg, p_range, scanVars, resolveVars, expandVars, detectVars,
                   probeVars>>

\* scan_one_target, lines 430-432: in range mode ports_data is unpacked and
\* handed to scanner.scan_range as it came from the parser.
CallScanRange ==
    /\ p_result # None
    /\ p_result[1].ok
    /\ p_result[1].mode = "range"
    /\ p_range = None
    /\ p_range' = Some(p_result[1].data)
    /\ UNCHANGED <<p_arg, p_result, scanVars, resolveVars, expandVars, detectVars,
                   probeVars>>

NextParse == ParseSpec \/ CallScanRange

SpecParse == InitParse /\ [][NextParse]_vars

\* C24: every range scan_range is called with has start <= end.
C24_RangeStartNotAboveEnd ==
    p_range # None => p_range[1][1] <= p_range[1][2]


ShadowedKeys ==
    {<<"e", "s", "m", "t", "p">>, <<"h", "t", "t", "p", "/">>,
     <<"o", "p", "e", "n", "s", "s", "l">>, <<"s", "s", "h", "-">>}

\* C25: the rules with the keywords "esmtp", "http/", "openssl" and "ssh-" are
\* never the first matching rule of a banner, each of them containing the
\* keyword of an earlier rule; every other rule is the first matching rule of
\* some banner (of its own keyword).
C25_ShadowedRulesNeverFirst ==
    /\ d_banner # None =>
         LET m == FirstMatch(lower(d_banner[1]), 1)
         IN  m # 0 => checks[m][1] \notin ShadowedKeys
    /\ \A j \in 1..Len(checks) :
         IF checks[j][1] \in ShadowedKeys
         THEN \E i \in 1..(j - 1) : Contains(checks[j][1], checks[i][1])
         ELSE FirstMatch(checks[j][1], 1) = j

C25_Witness ==
    /\ d_result = Some("smtp")
    /\ d_port = 9999
    /\ d_banner = Some(<<"E", "S", "M", "T", "P">>)
    /\ checks[FirstMatch(lower(d_banner[1]), 1)][1] = <<"s", "m", "t", "p">>

====
